---- MODULE Spec2Model ----
(***************************************************************************)
(* Model of worker/main.py: LLMService.ChatStream, the gRPC streaming      *)
(* handler that runs mlx_lm.stream_generate on a producer thread and       *)
(* relays its output through an asyncio.Queue to the response stream,      *)
(* holding the service-wide asyncio.Lock for the duration of the handler.  *)
(*                                                                         *)
(* Event-loop code between two awaits is one atomic action; every          *)
(* iteration of the producer thread's generator loop is one action.        *)
(***************************************************************************)
EXTENDS Integers, Sequences, FiniteSets, TLC

\* ------------------------------------------------------------------ bounds
\* Number of sessions that can be alive at the same time.
NumSessions == 2
\* max_tokens of the requests of Spec.
MaxTokens == 2

\* ------------------------------------------------------- program constants
\* `request.max_tokens or 256` (main.py:85)
DefaultMaxTokens == 256
\* asyncio.Queue() (main.py:73): maxsize 0, i.e. the queue is never full
QueueMaxSize == 0

Sessions == 1..NumSessions
\* response.text of the i-th response the engine yields for session s: a
\* string, modelled as the sequence of its characters.  The engine's output
\* for a given prompt is one fixed sequence of texts, all of them different.
EngineText(s, i) == <<s, i>>
\* exceptions the engine (or make_sampler) can raise
Excs == {[type |-> "RuntimeError", msg |-> "oom"]}

VARIABLES
    request,    \* request[s]: the ChatRequest of session s (NoRequest before arrival)
    pc,         \* pc[s]: position of the ChatStream coroutine of session s
    tpc,        \* tpc[s]: position of the _run_generation thread of session s
    lockOwner,  \* self._lock: 0 when unlocked, else the session inside `async with`
    waiters,    \* self._lock._waiters: sessions queued in acquire(), in order
    woken,      \* waiters whose future has been given its result by release()
    queue,      \* queue[s]: the asyncio.Queue of session s
    steps,      \* steps[s]: responses stream_generate has yielded for s
    produced,   \* produced[s]: the response.text values the engine yielded, in order
    raised,     \* raised[s]: the exceptions caught by _run_generation (at most one)
    stream      \* stream[s]: what the gRPC layer sent on the response stream of s

vars == <<request, pc, tpc, lockOwner, waiters, woken, queue, steps,
          produced, raised, stream>>

\* A ChatRequest: the number of its messages, temperature, max_tokens.
NoRequest == [messages |-> -1, temperature |-> 0, max_tokens |-> -1]

\* ------------------------------------------------------------ queue items
ChunkItem(t) == [kind |-> "chunk", payload |-> t]
DoneItem == [kind |-> "done", payload |-> "None"]
ErrorItem(e) == [kind |-> "error", payload |-> e]

\* ------------------------------------------------- response-stream events
Message(t) == [kind |-> "message", payload |-> t]
ClosedOk == [kind |-> "closed", payload |-> "OK"]
Aborted(details) == [kind |-> "aborted", payload |-> details]
ClientGone == [kind |-> "cancelled", payload |-> "CANCELLED"]

\* Fault variant of Str: the exception's type name instead of its message.
StrOfType(exc) == exc.type

\* str(payload) of an exception is its message (main.py:114)
Str(exc) == exc.msg

\* Fault variant of MaxTokensArg: request.max_tokens is passed as it is.
MaxTokensArgNoDefault(req) == req.max_tokens

\* max_tokens=request.max_tokens or 256 (main.py:85)
MaxTokensArg(req) == IF req.max_tokens = 0 THEN DefaultMaxTokens ELSE req.max_tokens

\* `request.temperature and request.temperature > 0` (main.py:78)
WantsSampler(req) == req.temperature # 0 /\ req.temperature > 0

\* queue.put_nowait raises QueueFull only when maxsize > 0 and it is reached
QueueFull(q) == QueueMaxSize > 0 /\ Len(q) >= QueueMaxSize

HandlerEnded(s) == pc[s] \in {"returned", "aborted", "cancelled"}

\* ------------------------------------------------------------ asyncio.Lock
\* Fault variant of WakeUpFirst: release() wakes nobody.
WakeUpNobody(ws, wk) == wk

\* Lock._wake_up_first: the result is set on the first waiter's future
WakeUpFirst(ws, wk) == IF ws = <<>> THEN wk ELSE wk \cup {Head(ws)}

Without(ws, s) == SelectSeq(ws, LAMBDA w: w # s)

\* Fault variant of CanAcquireNow: no lock at all, every request goes ahead.
CanAcquireAlways == TRUE

\* Fault variant of CanAcquireNow: acquire() only tests that the lock is not
\* held, so that a newcomer can take it ahead of a waiter already woken.
CanAcquireUnlocked == lockOwner = 0

\* Lock.acquire's fast path: not locked and nobody is waiting
CanAcquireNow == lockOwner = 0 /\ waiters = <<>>

\* Fault variant of LeaveLockScope: acquire()/release() written out by hand
\* with no try/finally, so that an exception skips the release.
LeaveLockScopeNoFinally(s, byException) ==
    IF byException
      THEN UNCHANGED <<lockOwner, woken, waiters>>
      ELSE /\ lockOwner' = 0
           /\ woken' = IF waiters = <<>> THEN woken ELSE woken \cup {Head(waiters)}
           /\ UNCHANGED waiters

\* Leaving the `async with self._lock` block, normally or by an exception
\* (__aexit__ runs either way): Lock.release unlocks and wakes the first waiter.
LeaveLockScope(s, byException) ==
    /\ lockOwner' = 0
    /\ woken' = WakeUpFirst(waiters, woken)
    /\ UNCHANGED waiters

\* threading.Thread(target=_run_generation).start(), then the first queue.get()
StartProducer(s) ==
    /\ tpc' = [tpc EXCEPT ![s] = "sampler"]
    /\ pc' = [pc EXCEPT ![s] = "get"]

\* ----------------------------------------------------------------- Init
Init ==
    /\ request = [s \in Sessions |-> NoRequest]
    /\ pc = [s \in Sessions |-> "idle"]
    /\ tpc = [s \in Sessions |-> "none"]
    /\ lockOwner = 0
    /\ waiters = <<>>
    /\ woken = {}
    /\ queue = [s \in Sessions |-> <<>>]
    /\ steps = [s \in Sessions |-> 0]
    /\ produced = [s \in Sessions |-> <<>>]
    /\ raised = [s \in Sessions |-> <<>>]
    /\ stream = [s \in Sessions |-> <<>>]

\* --------------------------------------------------- the handler coroutine
\* Fault variant of Arrive: thread.start() comes before `async with`, so the
\* producer runs whether or not the lock has been acquired.
ArriveThreadFirst(s, req) ==
    /\ pc[s] = "idle"
    /\ \A r \in Sessions : r < s => pc[r] # "idle"
    /\ request' = [request EXCEPT ![s] = req]
    /\ tpc' = [tpc EXCEPT ![s] = "sampler"]
    /\ IF CanAcquireNow
         THEN /\ lockOwner' = s
              /\ pc' = [pc EXCEPT ![s] = "get"]
              /\ UNCHANGED <<waiters, woken>>
         ELSE /\ waiters' = Append(waiters, s)
              /\ pc' = [pc EXCEPT ![s] = "waitlock"]
              /\ UNCHANGED <<lockOwner, woken>>
    /\ UNCHANGED <<queue, steps, produced, raised, stream>>

\* ChatStream is called with a request: it runs up to `async with self._lock`.
\* Nothing on the way looks at the request: build_prompt makes a prompt of
\* any list of messages, an empty one included.
\* With the lock free it goes on to start the producer and await queue.get();
\* otherwise it queues as a waiter.  (A new session takes the lowest free
\* number.)
Arrive(s, req) ==
    /\ pc[s] = "idle"
    /\ \A r \in Sessions : r < s => pc[r] # "idle"
    /\ request' = [request EXCEPT ![s] = req]
    /\ IF CanAcquireNow
         THEN /\ lockOwner' = s
              /\ StartProducer(s)
              /\ UNCHANGED <<waiters, woken>>
         ELSE /\ waiters' = Append(waiters, s)
              /\ pc' = [pc EXCEPT ![s] = "waitlock"]
              /\ UNCHANGED <<lockOwner, woken, tpc>>
    /\ UNCHANGED <<queue, steps, produced, raised, stream>>

\* A woken waiter resumes in Lock.acquire: it leaves the waiter list, takes
\* the lock, starts its producer and awaits queue.get().
Resume(s) ==
    /\ pc[s] = "waitlock"
    /\ s \in woken
    /\ waiters' = Without(waiters, s)
    /\ woken' = woken \ {s}
    /\ lockOwner' = s
    /\ StartProducer(s)
    /\ UNCHANGED <<request, queue, steps, produced, raised, stream>>

\* Fault variant of AwaitingItem: the handler swallows the cancellation and
\* keeps taking items.
AwaitingOrCancelled(s) == pc[s] \in {"get", "cancelled"}

\* The coroutine is suspended in `await queue.get()`
AwaitingItem(s) == pc[s] = "get"

\* kind == "chunk": yield ChatResponse(text_chunk=payload), and loop
OnChunk(s, payload) ==
    /\ stream' = [stream EXCEPT ![s] = Append(@, Message(payload))]
    /\ UNCHANGED <<pc, lockOwner, woken, waiters>>

\* kind == "done": break; the handler returns and the stream is closed
OnDone(s) ==
    /\ stream' = [stream EXCEPT ![s] = Append(@, ClosedOk)]
    /\ pc' = [pc EXCEPT ![s] = "returned"]
    /\ LeaveLockScope(s, FALSE)

\* Fault variant of OnError: context.abort(...) is not awaited, so nothing
\* is sent and the loop goes on.
OnErrorNotAwaited(s, payload) ==
    UNCHANGED <<stream, pc, lockOwner, woken, waiters>>

\* kind == "error": await context.abort(INTERNAL, str(payload)), which raises
OnError(s, payload) ==
    /\ stream' = [stream EXCEPT ![s] = Append(@, Aborted(Str(payload)))]
    /\ pc' = [pc EXCEPT ![s] = "aborted"]
    /\ LeaveLockScope(s, TRUE)

\* The body of the `while True` loop for one item taken from the queue.
Consume(s) ==
    /\ AwaitingItem(s)
    /\ queue[s] # <<>>
    /\ LET item == Head(queue[s]) IN
        /\ queue' = [queue EXCEPT ![s] = Tail(@)]
        /\ CASE item.kind = "chunk" -> OnChunk(s, item.payload)
             [] item.kind = "done" -> OnDone(s)
             [] item.kind = "error" -> OnError(s, item.payload)
    /\ UNCHANGED <<request, tpc, steps, produced, raised>>

\* The client goes away: the handler's task is cancelled at its await
\* (CancelledError is not an Exception: only `async with` reacts to it).
Disconnect(s) ==
    /\ pc[s] \in {"waitlock", "get"}
    /\ pc' = [pc EXCEPT ![s] = "cancelled"]
    /\ stream' = [stream EXCEPT ![s] = Append(@, ClientGone)]
    /\ IF pc[s] = "get"
         THEN LeaveLockScope(s, TRUE)
         ELSE \* Lock.acquire: the waiter leaves the list; if the lock is
              \* free it passes the wake-up on
              /\ waiters' = Without(waiters, s)
              /\ woken' = IF lockOwner = 0
                            THEN WakeUpFirst(Without(waiters, s), woken \ {s})
                            ELSE woken \ {s}
              /\ UNCHANGED lockOwner
    /\ UNCHANGED <<request, tpc, queue, steps, produced, raised>>

\* ---------------------------------------------------- the producer thread
\* Fault variant of PutNowait: a LifoQueue, which hands out the newest item first.
PutFirst(q, item) == <<item>> \o q

\* queue.put_nowait(item) on a queue holding q: the item goes to the end,
\* unless the queue is full (QueueFull is raised in the callback)
PutNowait(q, item) == IF QueueFull(q) THEN q ELSE Append(q, item)

\* Fault variant of CallSoon: one queue, created in __init__ and kept on
\* self, is shared by all requests.
CallSoonShared(s, item) == queue' = [queue EXCEPT ![1] = PutNowait(@, item)]

\* Fault variant of CallSoon: a queue of maxsize 1 and a put the thread
\* waits for (run_coroutine_threadsafe(queue.put(item), loop).result()).
CallSoonBlocking(s, item) ==
    /\ queue[s] = <<>>
    /\ queue' = [queue EXCEPT ![s] = Append(@, item)]

\* loop.call_soon_threadsafe(queue.put_nowait, item).  The loop runs the
\* callbacks of a thread in the order they were scheduled, and a callback
\* only appends to the queue of its own session: its effect is taken at the
\* call.
CallSoon(s, item) == queue' = [queue EXCEPT ![s] = PutNowait(@, item)]

\* Fault variant of CatchException: the done item is put in a finally clause,
\* so that it follows the error item as well.
CatchExceptionThenDone(s, exc) ==
    /\ raised' = [raised EXCEPT ![s] = Append(@, exc)]
    /\ queue' = [queue EXCEPT ![s] = PutNowait(PutNowait(@, ErrorItem(exc)), DoneItem)]
    /\ tpc' = [tpc EXCEPT ![s] = "finished"]

\* The except clause of _run_generation: the error is handed to the loop.
CatchException(s, exc) ==
    /\ raised' = [raised EXCEPT ![s] = Append(@, exc)]
    /\ CallSoon(s, ErrorItem(exc))
    /\ tpc' = [tpc EXCEPT ![s] = "finished"]

\* sampler = None / make_sampler(temp=...) returns
BuildSampler(s) ==
    /\ tpc[s] = "sampler"
    /\ tpc' = [tpc EXCEPT ![s] = "gen"]
    /\ UNCHANGED <<request, pc, lockOwner, waiters, woken, queue, steps,
                   produced, raised, stream>>

\* Fault variant of SamplerRaises: make_sampler is called outside the try
\* block, so that its exception ends the thread with nothing enqueued.
SamplerRaisesUncaught(s, exc) ==
    /\ tpc[s] = "sampler"
    /\ WantsSampler(request[s])
    /\ tpc' = [tpc EXCEPT ![s] = "finished"]
    /\ UNCHANGED <<request, pc, lockOwner, waiters, woken, queue, steps,
                   produced, raised, stream>>

\* make_sampler raises
SamplerRaises(s, exc) ==
    /\ tpc[s] = "sampler"
    /\ WantsSampler(request[s])
    /\ CatchException(s, exc)
    /\ UNCHANGED <<request, pc, lockOwner, waiters, woken, steps,
                   produced, stream>>

\* What the for loop does after a response with text t: it enqueues the
\* chunk and asks the generator for the next response.
AfterYield(s, t) ==
    /\ CallSoon(s, ChunkItem(t))
    /\ UNCHANGED tpc

\* stream_generate yields a response carrying text t
EngineYields(s, t) ==
    /\ tpc[s] = "gen"
    /\ steps[s] < MaxTokensArg(request[s])
    /\ steps' = [steps EXCEPT ![s] = @ + 1]
    /\ produced' = [produced EXCEPT ![s] = Append(@, t)]
    /\ AfterYield(s, t)
    /\ UNCHANGED <<request, pc, lockOwner, waiters, woken, raised, stream>>

\* stream_generate is exhausted: the for loop ends
EngineExhausted(s) ==
    /\ tpc[s] = "gen"
    /\ CallSoon(s, DoneItem)
    /\ tpc' = [tpc EXCEPT ![s] = "finished"]
    /\ UNCHANGED <<request, pc, lockOwner, waiters, woken, steps, produced,
                   raised, stream>>

\* stream_generate raises
EngineRaises(s, exc) ==
    /\ tpc[s] = "gen"
    /\ CatchException(s, exc)
    /\ UNCHANGED <<request, pc, lockOwner, waiters, woken, steps, produced,
                   stream>>

\* ---------------------------------------------------------- housekeeping
\* Nothing of session s is left running: the handler has ended and the
\* thread has finished (or was never started).  Its queue is garbage.
Dead(s) ==
    /\ HandlerEnded(s)
    /\ tpc[s] \in {"none", "finished"}

\* The objects of a dead session are dropped; its number is free for the
\* next request.
Retire(s) ==
    /\ Dead(s)
    /\ request' = [request EXCEPT ![s] = NoRequest]
    /\ pc' = [pc EXCEPT ![s] = "idle"]
    /\ tpc' = [tpc EXCEPT ![s] = "none"]
    /\ queue' = [queue EXCEPT ![s] = <<>>]
    /\ steps' = [steps EXCEPT ![s] = 0]
    /\ produced' = [produced EXCEPT ![s] = <<>>]
    /\ raised' = [raised EXCEPT ![s] = <<>>]
    /\ stream' = [stream EXCEPT ![s] = <<>>]
    /\ UNCHANGED <<lockOwner, waiters, woken>>

\* The requests of Spec: one message, sampling on (so that make_sampler is
\* called), and a budget of MaxTokens tokens.  The engine may stop before the
\* budget.
Requests == [messages : {1}, temperature : {1}, max_tokens : {MaxTokens}]

\* A dead session is dropped before anything else happens: nothing reads it.
NoneDead == \A s \in Sessions : ~Dead(s)

\* One step of the handler, the producer thread or the loop
Next ==
    \/ \E s \in Sessions : Retire(s)
    \/ NoneDead /\ \E s \in Sessions, req \in Requests : Arrive(s, req)
    \/ NoneDead /\ \E s \in Sessions : Resume(s)
    \/ NoneDead /\ \E s \in Sessions : Consume(s)
    \/ NoneDead /\ \E s \in Sessions : Disconnect(s)
    \/ NoneDead /\ \E s \in Sessions : BuildSampler(s)
    \/ NoneDead /\ \E s \in Sessions, e \in Excs : SamplerRaises(s, e)
    \/ NoneDead /\ \E s \in Sessions : EngineYields(s, EngineText(s, steps[s] + 1))
    \/ NoneDead /\ \E s \in Sessions : EngineExhausted(s)
    \/ NoneDead /\ \E s \in Sessions, e \in Excs : EngineRaises(s, e)

Spec == Init /\ [][Next]_vars

\* ------------------------------------------------------------- scheduling
\* Any step of the producer thread of s
ProducerStep(s) ==
    \/ BuildSampler(s)
    \/ \E e \in Excs : SamplerRaises(s, e)
    \/ EngineYields(s, EngineText(s, steps[s] + 1))
    \/ EngineExhausted(s)
    \/ \E e \in Excs : EngineRaises(s, e)

\* The loop runs every runnable coroutine, the OS
\* runs the producer thread, and a client that stays connected reads its
\* stream.  Nothing forces a request to arrive or a client to leave.
Fairness ==
    /\ WF_vars(\E s \in Sessions : Retire(s))
    /\ \A s \in Sessions :
        /\ WF_vars(Resume(s))
        /\ WF_vars(Consume(s))
        /\ WF_vars(ProducerStep(s))

LiveSpec == Init /\ [][Next]_vars /\ Fairness

\* The OS runs the producer threads; the handlers may stall for ever (a
\* client that stops reading) or be cancelled.
ProducerFairness ==
    /\ WF_vars(\E s \in Sessions : Retire(s))
    /\ \A s \in Sessions : WF_vars(ProducerStep(s))

ProducerLiveSpec == Init /\ [][Next]_vars /\ ProducerFairness

\* One request that leaves max_tokens unset and whose client stays connected
\* but stops reading: the handler never gets to take an item from the queue.
StallRequest == [messages |-> 1, temperature |-> 0, max_tokens |-> 0]

NextStall ==
    \/ Arrive(1, StallRequest)
    \/ BuildSampler(1)
    \/ EngineYields(1, EngineText(1, steps[1] + 1))
    \/ EngineExhausted(1)

SpecStall == Init /\ [][NextStall]_vars

\* Requests with or without sampling and with any positive budget up to
\* MaxTokens.
SerialRequests == [messages : {1}, temperature : {0, 1}, max_tokens : 1..MaxTokens]

\* Requests whose clients stay connected and whose engine runs do not fail:
\* no Disconnect, no exception.
NextSerial ==
    \/ \E s \in Sessions : Retire(s)
    \/ NoneDead /\ \E s \in Sessions, req \in SerialRequests : Arrive(s, req)
    \/ NoneDead /\ \E s \in Sessions : Resume(s)
    \/ NoneDead /\ \E s \in Sessions : Consume(s)
    \/ NoneDead /\ \E s \in Sessions : BuildSampler(s)
    \/ NoneDead /\ \E s \in Sessions : EngineYields(s, EngineText(s, steps[s] + 1))
    \/ NoneDead /\ \E s \in Sessions : EngineExhausted(s)

SerialSpec == Init /\ [][NextSerial]_vars /\ Fairness

\* One request at a time on session 1, with max_tokens unset (0) or any
\* positive value up to MaxTokens; the engine runs without failing and the
\* items stay in the queue.
BudgetRequests == [messages : {1}, temperature : {0}, max_tokens : 0..MaxTokens]

NextBudget ==
    \/ \E req \in BudgetRequests : Arrive(1, req)
    \/ BuildSampler(1)
    \/ EngineYields(1, EngineText(1, steps[1] + 1))
    \/ EngineExhausted(1)

SpecBudget == Init /\ [][NextBudget]_vars

\* Requests a validating front end would turn away: no message at all, or a
\* negative temperature.
InvalidRequests ==
    {[messages |-> 0, temperature |-> 1, max_tokens |-> MaxTokens],
     [messages |-> 1, temperature |-> -1, max_tokens |-> MaxTokens]}

NextInvalid ==
    \/ \E s \in Sessions : Retire(s)
    \/ NoneDead /\ \E s \in Sessions, req \in InvalidRequests : Arrive(s, req)
    \/ NoneDead /\ \E s \in Sessions : Resume(s)
    \/ NoneDead /\ \E s \in Sessions : Consume(s)
    \/ NoneDead /\ \E s \in Sessions : Disconnect(s)
    \/ NoneDead /\ \E s \in Sessions : BuildSampler(s)
    \/ NoneDead /\ \E s \in Sessions, e \in Excs : SamplerRaises(s, e)
    \/ NoneDead /\ \E s \in Sessions : EngineYields(s, EngineText(s, steps[s] + 1))
    \/ NoneDead /\ \E s \in Sessions : EngineExhausted(s)
    \/ NoneDead /\ \E s \in Sessions, e \in Excs : EngineRaises(s, e)

SpecInvalid == Init /\ [][NextInvalid]_vars

\* The text of a response can be empty (the detokenizer has nothing to show
\* for the token yet): the i-th response of session s carries its text or "".
EngineTexts(s, i) == {EngineText(s, i), <<>>}

\* Runs without disconnect or exception, with responses whose text may be
\* empty.
NextEmptyText ==
    \/ \E s \in Sessions : Retire(s)
    \/ NoneDead /\ \E s \in Sessions, req \in Requests : Arrive(s, req)
    \/ NoneDead /\ \E s \in Sessions : Resume(s)
    \/ NoneDead /\ \E s \in Sessions : Consume(s)
    \/ NoneDead /\ \E s \in Sessions : BuildSampler(s)
    \/ NoneDead /\ \E s \in Sessions :
          \E t \in EngineTexts(s, steps[s] + 1) : EngineYields(s, t)
    \/ NoneDead /\ \E s \in Sessions : EngineExhausted(s)

SpecEmptyText == Init /\ [][NextEmptyText]_vars

\* ------------------------------------------------------------ properties
Last(q) == q[Len(q)]
IsPrefix(a, b) == Len(a) <= Len(b) /\ SubSeq(b, 1, Len(a)) = a
IsTerminal(e) == e.kind \in {"closed", "aborted", "cancelled"}
Kinds(q) == [i \in 1..Len(q) |-> q[i].kind]
\* the text_chunk values sent on the stream of s, in order
MessagesOf(s) ==
    LET ms == SelectSeq(stream[s], LAMBDA e : e.kind = "message")
    IN  [i \in 1..Len(ms) |-> ms[i].payload]
\* the terminal item the producer of s has handed over is somewhere on its way
TerminalItemPending(s) ==
    \E i \in 1..Len(queue[s]) : queue[s][i].kind \in {"done", "error"}

\* positions of the terminal items in the queue of s
TerminalItems(s) ==
    {i \in 1..Len(queue[s]) : queue[s][i].kind \in {"done", "error"}}

\* C1: at most one producer thread is inside stream_generate at any instant.
EngineMutualExclusion == Cardinality({s \in Sessions : tpc[s] = "gen"}) <= 1

\* C2: a session whose handler has left the consumer loop (returned, aborted
\* or cancelled) does not hold the lock.
GuardReleasedOnExit == \A s \in Sessions : HandlerEnded(s) => lockOwner # s

\* A Running session was cancelled, its producer is still there, the lock is free.
GuardReleasedWitness ==
    \E s \in Sessions : pc[s] = "cancelled" /\ tpc[s] = "gen" /\ lockOwner = 0

\* C3: a request waiting for the lock while the lock is free (its holder has
\* released it, however it ended) eventually is Running, unless its own
\* client leaves first.
GuardLiveness ==
    \A b \in Sessions :
        (pc[b] = "waitlock" /\ lockOwner = 0) ~> (pc[b] = "get" \/ pc[b] = "cancelled")

\* A failed and released the lock; B, which was waiting, has been woken.
GuardLivenessWitness ==
    \E a, b \in Sessions :
        pc[a] = "aborted" /\ pc[b] = "waitlock" /\ b \in woken /\ lockOwner = 0

\* C4: the texts sent on a session's stream are a prefix of the texts the
\* engine produced, in order, one message per text; all of them once the
\* handler has returned normally.
OrderingPreserved ==
    \A s \in Sessions :
        /\ IsPrefix(MessagesOf(s), produced[s])
        /\ pc[s] = "returned" => MessagesOf(s) = produced[s]

OrderingWitness ==
    \E s \in Sessions : pc[s] = "returned" /\ Len(produced[s]) >= 2

\* C5: a stream carries a terminal event exactly when its handler has ended,
\* that event is the last one on the stream and there is no other; and once
\* the producer has finished and everything it enqueued has been taken, the
\* terminal event has been observed.
TerminationUnique ==
    \A s \in Sessions :
        /\ \A i \in 1..Len(stream[s]) : IsTerminal(stream[s][i]) => i = Len(stream[s])
        /\ HandlerEnded(s) <=> (stream[s] # <<>> /\ IsTerminal(Last(stream[s])))
        /\ (tpc[s] = "finished" /\ queue[s] = <<>>) => HandlerEnded(s)

TerminationWitness ==
    \E s \in Sessions :
        /\ Kinds(stream[s]) = <<"message", "message", "closed">>
        /\ tpc[s] = "finished"

\* C6: the hand-off channel is bounded: with a consumer that has stalled, the
\* number of queued events never exceeds the capacity of 128.
ChannelBounded == \A s \in Sessions : Len(queue[s]) <= 128

\* C7: once the client has left, an engine step the producer completes is
\* its last: it stops instead of enqueueing the chunk and stepping again.
CancellationLatencyBound ==
    [][\A s \in Sessions :
          (pc[s] = "cancelled" /\ steps'[s] = steps[s] + 1)
              => (tpc'[s] = "finished" /\ queue'[s] = queue[s])]_vars

\* C8: a handler that ended by abort sent exactly the texts the engine
\* yielded before it raised, then the INTERNAL status with the exception's
\* message; and a handler that returned normally saw no exception.
EngineFailurePropagated ==
    \A s \in Sessions :
        /\ pc[s] = "aborted" =>
              /\ Len(raised[s]) = 1
              /\ Len(stream[s]) = Len(produced[s]) + 1
              /\ \A i \in 1..Len(produced[s]) :
                    /\ stream[s][i].kind = "message"
                    /\ stream[s][i].payload = produced[s][i]
              /\ Last(stream[s]).kind = "aborted"
              /\ Last(stream[s]).payload = raised[s][1].msg
        /\ pc[s] = "returned" => raised[s] = <<>>

\* The engine raised on its second step: one chunk, then the status.
EngineFailureWitness ==
    \E s \in Sessions :
        pc[s] = "aborted" /\ steps[s] = 1 /\ Kinds(stream[s]) = <<"message", "aborted">>

\* C9: a session whose client left stays Cancelled: nothing more is sent on
\* its stream and no abort status is ever on it, whatever its producer does.
DisconnectAbsorbed ==
    /\ [](\A s \in Sessions :
            pc[s] = "cancelled" =>
                /\ Last(stream[s]).kind = "cancelled"
                /\ \A i \in 1..Len(stream[s]) : stream[s][i].kind # "aborted")
    /\ [][\A s \in Sessions :
            pc[s] = "cancelled" =>
                \/ pc'[s] = "cancelled" /\ stream'[s] = stream[s]
                \/ pc'[s] = "idle" /\ Dead(s)]_vars

\* The client left and the engine raised: the error sits in the orphaned queue.
DisconnectWitness ==
    \E s \in Sessions :
        /\ pc[s] = "cancelled"
        /\ raised[s] # <<>>
        /\ queue[s] # <<>>
        /\ Last(queue[s]).kind = "error"

\* C10: a producer that has finished has handed over a terminal item, and a
\* handler waiting on its queue eventually ends.
ConsumerNeverStuck ==
    /\ [](\A s \in Sessions :
            (tpc[s] = "finished" /\ ~HandlerEnded(s)) => TerminalItemPending(s))
    /\ \A s \in Sessions : (pc[s] = "get") ~> HandlerEnded(s)

\* make_sampler (or the engine's first step) raised and the handler ended.
ConsumerWitness ==
    \E s \in Sessions : pc[s] = "aborted" /\ steps[s] = 0 /\ raised[s] # <<>>

\* C11: with clients that stay connected and engine runs that do not fail,
\* while a request is Running (it has not consumed its terminal event) no
\* other request has been sent a chunk or has a producer, unless that other
\* request has already returned; and every request that has arrived
\* eventually returns normally.
SerializedDelivery ==
    /\ [](\A a, b \in Sessions :
            (a # b /\ pc[a] = "get" /\ pc[b] # "returned") =>
                (MessagesOf(b) = <<>> /\ queue[b] = <<>> /\ tpc[b] = "none"))
    /\ \A s \in Sessions : (pc[s] \in {"waitlock", "get"}) ~> (pc[s] = "returned")

\* Request 2 arrived while request 1 was there (a request takes number 2
\* only then), so it waited; request 1 is gone and request 2 has been sent
\* its first chunk.
SerializedWitness ==
    /\ pc[1] = "idle"
    /\ pc[2] = "get"
    /\ Len(MessagesOf(2)) = 1

\* C12: the budget stream_generate is called with is 256 when the request's
\* max_tokens is 0 and the request's value when that is positive; it is never
\* 0, and the engine yields at most that many responses.
BudgetDefaulted ==
    \A s \in Sessions :
        tpc[s] # "none" =>
            /\ request[s].max_tokens = 0 => MaxTokensArg(request[s]) = 256
            /\ request[s].max_tokens > 0 =>
                  MaxTokensArg(request[s]) = request[s].max_tokens
            /\ MaxTokensArg(request[s]) # 0
            /\ steps[s] <= MaxTokensArg(request[s])
            /\ (request[s].max_tokens = 0 /\ tpc[s] = "gen" /\ steps[s] < 256)
                  => ENABLED EngineYields(s, EngineText(s, steps[s] + 1))

\* A request with max_tokens 0 ran to the end of the default budget.
BudgetWitness ==
    \E s \in Sessions :
        request[s].max_tokens = 0 /\ steps[s] = 256 /\ tpc[s] = "finished"

\* C13: a request with an empty message list or a negative temperature
\* never holds the lock, never has a producer thread and never gets an
\* engine step.
InvalidNeverEnters ==
    \A s \in Sessions :
        (pc[s] # "idle" /\ (request[s].messages = 0 \/ request[s].temperature < 0))
            => (lockOwner # s /\ tpc[s] = "none" /\ steps[s] = 0)

\* C14: every message sent on a response stream carries a non-empty text.
ChunksNonEmpty ==
    \A s \in Sessions :
        \A i \in 1..Len(stream[s]) :
            stream[s][i].kind = "message" => Len(stream[s][i].payload) > 0

\* C15: requests get the lock in the order in which they started to wait:
\* only the waiter at the head of the waiter list is ever woken, a waiter
\* that becomes Running is the one at the head, and a request that does not
\* have to wait becomes Running only when nobody is waiting.
GuardFifo ==
    /\ [](woken # {} => (waiters # <<>> /\ woken = {Head(waiters)} /\ lockOwner = 0))
    /\ [][\A s \in Sessions :
            (pc[s] # "get" /\ pc'[s] = "get") =>
                IF pc[s] = "waitlock"
                  THEN waiters # <<>> /\ Head(waiters) = s
                  ELSE waiters = <<>>]_vars

\* The lock was released and the first waiter woken; before it ran, a new
\* request arrived and queued behind it.
GuardFifoWitness ==
    /\ lockOwner = 0
    /\ Len(waiters) = 2
    /\ woken = {Head(waiters)}
    /\ request[waiters[2]] \in Requests

\* C16: once the handler of a session has ended (returned, aborted or
\* cancelled), nothing is put into the session's queue any more: the queue
\* stays as it is until the session's objects are dropped.
TerminalAbsorbing ==
    [][\A s \in Sessions :
          HandlerEnded(s) => (queue'[s] = queue[s] \/ pc'[s] = "idle")]_vars

\* C17: a producer enqueues exactly one terminal item, and that as the last
\* thing it does: a queue holds at most one terminal item, at its end, and
\* only once the thread has finished; it is an error item exactly when an
\* exception was caught; a finished thread's terminal item is in the queue
\* or has been taken by the handler, which then ended with an empty queue
\* behind it; and the handler that takes a terminal item leaves the loop.
SingleSentinel ==
    /\ [](\A s \in Sessions :
            /\ Cardinality(TerminalItems(s)) <= 1
            /\ TerminalItems(s) \subseteq {Len(queue[s])}
            /\ tpc[s] # "finished" => TerminalItems(s) = {}
            /\ tpc[s] = "finished" =>
                  (TerminalItems(s) # {} \/ pc[s] \in {"returned", "aborted"})
            /\ TerminalItems(s) # {} =>
                  (Last(queue[s]).kind = "error" <=> raised[s] # <<>>)
            /\ Len(raised[s]) <= 1
            /\ pc[s] \in {"returned", "aborted"} =>
                  (queue[s] = <<>> /\ tpc[s] = "finished"))
    /\ [][\A s \in Sessions :
            (/\ pc[s] = "get"
             /\ queue[s] # <<>>
             /\ Head(queue[s]).kind \in {"done", "error"}
             /\ Len(queue'[s]) < Len(queue[s]))
                => pc'[s] \in {"returned", "aborted"}]_vars

\* The producer has finished: its chunks wait in the queue, the done item
\* behind them.
SingleSentinelWitness ==
    \E s \in Sessions :
        /\ tpc[s] = "finished"
        /\ pc[s] = "get"
        /\ Kinds(queue[s]) = <<"chunk", "chunk", "done">>

\* C18: a request that has not acquired the lock has no producer thread, no
\* engine step and nothing in its queue; a thread is started only for a
\* request that has none yet, in the step in which the request holds the
\* lock; and a request cancelled while waiting for the lock never gets one.
AcquireBeforeRunning ==
    /\ [](\A s \in Sessions :
            pc[s] \in {"idle", "waitlock"} =>
                (tpc[s] = "none" /\ steps[s] = 0 /\ queue[s] = <<>> /\ lockOwner # s))
    /\ [][\A s \in Sessions :
            /\ (tpc[s] # "sampler" /\ tpc'[s] = "sampler") =>
                  (tpc[s] = "none" /\ lockOwner' = s /\ pc'[s] = "get")
            /\ (pc[s] = "waitlock" /\ pc'[s] = "cancelled") =>
                  (tpc'[s] = "none" /\ steps'[s] = 0)
            /\ (pc[s] = "cancelled" /\ tpc[s] = "none") =>
                  (tpc'[s] = "none" /\ steps'[s] = 0)]_vars

\* A request was cancelled while it waited for the lock another request holds.
AcquireWitness ==
    \E a, b \in Sessions :
        /\ lockOwner = a
        /\ pc[b] = "cancelled"
        /\ tpc[b] = "none"
        /\ stream[b] = <<ClientGone>>

\* C19: what is in the queue of a session and what was sent on its stream
\* comes from that session's producer: every chunk carries a text its own
\* engine run produced, the chunks sent and the chunks queued are together
\* exactly the texts produced, an abort status comes from an exception its
\* own producer caught, and a normal close from its own producer's done item.
SessionIsolation ==
    \A s \in Sessions :
        /\ \A i \in 1..Len(queue[s]) :
              queue[s][i].kind = "chunk" => queue[s][i].payload[1] = s
        /\ \A i \in 1..Len(stream[s]) :
              /\ stream[s][i].kind = "message" => stream[s][i].payload[1] = s
              /\ stream[s][i].kind = "aborted" => raised[s] # <<>>
              /\ stream[s][i].kind = "closed" =>
                    (tpc[s] = "finished" /\ raised[s] = <<>>)
        /\ Len(MessagesOf(s))
             + Cardinality({i \in 1..Len(queue[s]) : queue[s][i].kind = "chunk"})
           = Len(produced[s])

\* A's client has left and A's producer goes on enqueueing, while B is
\* Running and has been sent a chunk.
SessionIsolationWitness ==
    \E a, b \in Sessions :
        /\ a # b
        /\ pc[a] = "cancelled"
        /\ tpc[a] = "gen"
        /\ queue[a] # <<>>
        /\ pc[b] = "get"
        /\ MessagesOf(b) # <<>>

\* C20: a producer thread that has not finished always has a step it can
\* take, whatever its handler does, and it eventually finishes with its
\* terminal item enqueued, even if the handler never takes an item again or
\* has been cancelled.
ProducerTerminates ==
    /\ [](\A s \in Sessions :
            tpc[s] \in {"sampler", "gen"} => ENABLED ProducerStep(s))
    /\ \A s \in Sessions :
          (tpc[s] \in {"sampler", "gen"})
              ~> (tpc[s] = "finished" /\ TerminalItems(s) = {Len(queue[s])})

\* The handler took nothing and was cancelled; the producer ran to its
\* budget and finished, everything it enqueued is still in the queue.
ProducerWitness ==
    \E s \in Sessions :
        /\ pc[s] = "cancelled"
        /\ stream[s] = <<ClientGone>>
        /\ tpc[s] = "finished"
        /\ steps[s] = MaxTokens
        /\ Len(queue[s]) = MaxTokens + 1

====
